---- MODULE Spec2Model ----
(***************************************************************************)
(* Frame pipelining (renderer.rs: FrameManager / Frame) and the ping-pong  *)
(* particle simulation (particle_life/mod.rs: World) of dplife, together   *)
(* with the device's command queue and completion fence.                   *)
(*                                                                         *)
(* Four specifications share the state and the operations:                 *)
(*   Spec        a client that calls the frame manager through Renderer in *)
(*               any order, including the orders the assertions reject;    *)
(*   SpecApp     the render thread of main.rs (main_thread / App::render); *)
(*   SpecWorld   a World of any particle count, scatter and update called  *)
(*               in any order within one frame;                            *)
(*   SpecThreads the render thread together with the event-loop thread.    *)
(* Device calls that fail (device loss) are not modelled: every unwrap()   *)
(* of a device call succeeds.  A failed assert! ends the render thread.    *)
(***************************************************************************)
EXTENDS Integers, Sequences, FiniteSets, TLC

\* renderer.rs:44
FRAME_COUNT == 2

\* main.rs:201
NUM_PARTICLES == 50000

\* particle_life/mod.rs:96: the divisor of the Dispatch
DispatchDivisor == 32

\* particle_life/mod.rs:281: ParticleType::MAX
ParticleType_MAX == 8

\* threads of one thread group of the compute shader (particle_life.hlsl),
\* one particle per thread
ThreadsPerGroup == 32

\* Bounds of the model.
MaxFrames == 3          \* end_frame succeeds at most MaxFrames times
MaxTicks == 3           \* World::update is called at most MaxTicks times
MaxListsPerFrame == 2   \* command lists acquired between two resets of a slot
MaxScatters == 2        \* World::scatter is called at most MaxScatters times per update
MaxEvents == 2          \* the event loop delivers at most MaxEvents events

Slots == 0 .. (FRAME_COUNT - 1)

VARIABLES
    \* ---- device ----
    fence,              \* ID3D12Fence: the completed value
    fence_event,        \* the auto-reset event of CreateEventA: signalled?
    event_target,       \* value registered by SetEventOnCompletion, 0 = none
    queue,              \* ID3D12CommandQueue: submitted, not yet executed
    \* ---- FrameManager ----
    next_fence_value,
    frame_index,
    frames,             \* Slots -> Frame
    command_lists,      \* every ID3D12GraphicsCommandList created so far
    \* ---- World ----
    reset_particles,
    old_particles,
    new_particles,
    num_particles,      \* shader_constants.num_particles
    world_rules,        \* App::world_rules: which generation of the rule table
    \* ---- memory ----
    staging_mem,        \* what the CPU last wrote into each staging buffer
    constant_buffer,    \* the device-resident constants / rule table
    executed,           \* the dispatches the device has executed, in order
    vertex_buffer,      \* World::vertex_buffer: the update whose dispatch wrote it
    drawn,              \* the draws the device has executed, in order
    particles_written,  \* the particle buffers the device has written
    \* ---- swap chain ----
    back_buffer_index,  \* IDXGISwapChain3::GetCurrentBackBufferIndex()
    \* ---- render thread ----
    pc,                 \* position of the thread
    trap,               \* the assertion that failed, "none" otherwise
    cl,                 \* the command list handle the caller holds, 0 = none
    drop_index,         \* slot Drop for FrameManager is waiting on
    \* ---- history ----
    signal_log,         \* the Signal calls of Frame::end, in call order
    reset_log,          \* the last command_allocator.Reset() of Frame::start_new
    dispatch_log,       \* the Dispatch calls of World::update, in call order
    staging_write,      \* the last CPU write of a staging buffer
    scatter_calls,      \* the World::scatter calls: pending = since the last
                        \* World::update, last = before the last World::update
    \* ---- event-loop thread and what it shares with the render thread ----
    ui_mutex,           \* Mutex<ImguiManager>: "free" or the thread holding it
    window_mutex,       \* ImguiManager::window: "free" or the thread holding it
    channel,            \* mpsc channel of ThreadMessage: sent, not yet received
    epc,                \* position of the event-loop thread
    event,              \* the event the closure was called with
    main_thread,        \* Option<JoinHandle>: TRUE = Some
    events,             \* events delivered so far
    handled             \* the events App::handle_event was called with, in order

deviceVars == <<fence, fence_event, event_target, queue>>
managerVars == <<next_fence_value, frame_index, frames, command_lists>>
worldVars == <<reset_particles, old_particles, new_particles, num_particles,
               world_rules>>
memoryVars == <<staging_mem, constant_buffer, executed, vertex_buffer, drawn,
                particles_written>>
swapVars == <<back_buffer_index>>
threadVars == <<pc, trap, cl, drop_index>>
historyVars == <<signal_log, reset_log, dispatch_log, staging_write,
                 scatter_calls>>
eventVars == <<ui_mutex, window_mutex, channel, epc, event, main_thread,
               events, handled>>
vars == <<deviceVars, managerVars, worldVars, memoryVars, swapVars,
          threadVars, historyVars, eventVars>>

\* World::staging_buffers, old_particles / new_particles as created by World::new
StagingBuffers == <<"staging0", "staging1">>
ParticleBuffers == <<"particlesA", "particlesB">>

\* SwapChain::render_targets and the descriptors of SwapChain::rtv_heap, one
\* per buffer of the swap chain (BufferCount: FRAME_COUNT), by buffer index
RenderTargets == <<"RenderTarget 0", "RenderTarget 1">>
RtvHandles == <<"rtv 0", "rtv 1">>

----------------------------------------------------------------------------
\* Construction

\* Frame::new
NewFrame ==
    [fence_value |-> 0,
     available_command_lists |-> <<>>,
     used_command_lists |-> <<>>,
     started |-> FALSE]

\* the num_particles World::new is given: App::new passes NUM_PARTICLES
NumParticlesInputs == {64, 65, NUM_PARTICLES}

\* next_fence_value starting at the fence_value of a slot never submitted
initial_fence_value_sentinel == NewFrame.fence_value

initial_reset_particles_clear == FALSE

\* World::new: reset_particles: true
initial_reset_particles == TRUE

\* FrameManager::new: next_fence_value: 1
initial_fence_value == 1

initial_frame_index_last == FRAME_COUNT - 1

\* FrameManager::new: frame_index: 0
initial_frame_index == 0

Construct(n) ==
    \* Renderer::new / FrameManager::new
    /\ fence = 0
    /\ fence_event = FALSE
    /\ event_target = 0
    /\ queue = <<>>
    /\ next_fence_value = initial_fence_value
    /\ frame_index = initial_frame_index
    /\ frames = [i \in Slots |-> NewFrame]
    /\ command_lists = <<>>
    \* World::new
    /\ reset_particles = initial_reset_particles
    /\ old_particles = ParticleBuffers[1]
    /\ new_particles = ParticleBuffers[2]
    /\ num_particles = n
    \* App::new: Rules::new_random
    /\ world_rules = 0
    \* the buffers as created: nothing written yet
    /\ staging_mem = [b \in {StagingBuffers[1], StagingBuffers[2]} |->
                         [rules |-> -1]]
    /\ constant_buffer = [rules |-> -1]
    /\ executed = <<>>
    /\ vertex_buffer = 0
    /\ particles_written = {}
    /\ drawn = <<>>
    \* SwapChain::new
    /\ back_buffer_index = 0
    \* main_thread before the first tick
    /\ pc = "ready"
    /\ trap = "none"
    /\ cl = 0
    /\ drop_index = 0
    /\ signal_log = <<>>
    /\ reset_log = [slot |-> 0, fence_value |-> 0, completed |-> 0,
                    waited |-> FALSE, resets |-> 0]
    /\ dispatch_log = <<>>
    /\ staging_write = [buffer |-> "none", busy |-> FALSE, regions |-> <<>>]
    /\ scatter_calls = [pending |-> 0, last |-> 0]
    \* main before event_loop.run
    /\ ui_mutex = "free"
    /\ window_mutex = "free"
    /\ channel = <<>>
    /\ epc = "idle"
    /\ event = "none"
    /\ main_thread = TRUE
    /\ events = 0
    /\ handled = <<>>

Init == Construct(NUM_PARTICLES)

\* World::new with any particle count
InitWorld == \E n \in NumParticlesInputs : Construct(n)

----------------------------------------------------------------------------
\* The device: executes the queue in submission order.

SignalItem(v) == [kind |-> "signal", value |-> v, list |-> 0, cmds |-> <<>>]
ListItem(id, cmds) == [kind |-> "list", value |-> 0, list |-> id, cmds |-> cmds]
\* IDXGISwapChain::Present of buffer index, queued on the command queue the
\* swap chain was created for
PresentItem(index) == [kind |-> "present", value |-> index, list |-> 0,
                       cmds |-> <<>>]

\* The device runs the commands of a list in recording order.  A copy of
\* the rule table reads the staging buffer when the copy executes; a dispatch
\* reads the rule table then in the constants buffer and writes the vertex
\* buffer; a draw reads the vertex buffer as it is then.  m is the memory
\* [cb |-> constants buffer, ex |-> dispatches executed,
\*  vb |-> vertex buffer, dr |-> draws executed,
\*  pw |-> particle buffers written].  A copy of particles and a dispatch
\* write a particle buffer; a dispatch reads one, and whether that one had
\* been written is noted with the dispatch.
RECURSIVE run(_, _)
run(cmds, m) ==
    IF cmds = <<>> THEN m
    ELSE LET c == Head(cmds)
             after ==
                 IF c.op = "copy" /\ c.what = "rules"
                 THEN [m EXCEPT !.cb = staging_mem[c.src]]
                 ELSE IF c.op = "dispatch"
                 THEN [m EXCEPT !.ex = Append(@, [tick |-> c.tick,
                                                  rules |-> m.cb.rules,
                                                  initialized |-> c.src \in m.pw]),
                                !.vb = c.tick,
                                !.pw = @ \cup {c.dst}]
                 ELSE IF c.op = "copy" /\ c.what = "particles"
                 THEN [m EXCEPT !.pw = @ \cup {c.dst}]
                 ELSE IF c.op = "draw"
                 THEN [m EXCEPT !.dr = Append(@, [frame |-> c.tick,
                                                  vertices |-> m.vb])]
                 ELSE m
         IN run(Tail(cmds), after)

event_fires_never(v) == FALSE

\* the event registered by SetEventOnCompletion is set when the fence
\* reaches the registered value
event_fires(v) == event_target # 0 /\ v >= event_target

DeviceExecute ==
    /\ queue # <<>>
    /\ LET item == Head(queue) IN
       /\ queue' = Tail(queue)
       /\ IF item.kind = "signal"
          THEN /\ fence' = item.value
               /\ IF event_fires(item.value)
                  THEN fence_event' = TRUE /\ event_target' = 0
                  ELSE UNCHANGED <<fence_event, event_target>>
               /\ UNCHANGED <<constant_buffer, executed, vertex_buffer, drawn,
                              particles_written>>
          ELSE /\ LET m == run(item.cmds, [cb |-> constant_buffer,
                                           ex |-> executed,
                                           vb |-> vertex_buffer,
                                           pw |-> particles_written,
                                           dr |-> drawn])
                  IN /\ constant_buffer' = m.cb
                     /\ executed' = m.ex
                     /\ vertex_buffer' = m.vb
                     /\ particles_written' = m.pw
                     /\ drawn' = m.dr
               /\ UNCHANGED <<fence, fence_event, event_target>>
    /\ UNCHANGED <<managerVars, worldVars, staging_mem, swapVars, threadVars,
                   historyVars, eventVars>>

----------------------------------------------------------------------------
\* Frame (renderer.rs:303-388)

\* Frame::wait returns at once: the slot was never submitted, or
\* SetEventOnCompletion finds the fence already at fence_value and the
\* event is signalled before WaitForSingleObject is entered.
wait_ready_always(f) == TRUE

wait_ready_latest(f) == f.fence_value = 0 \/ fence >= next_fence_value - 1

wait_ready_one_early(f) == f.fence_value = 0 \/ fence >= f.fence_value - 1

wait_ready(f) == f.fence_value = 0 \/ fence >= f.fence_value

\* the assertions of Frame::start_new, Frame::end, Frame::new_command_list
start_new_assert(f) == ~f.started

end_assert_none(f) == TRUE

end_assert(f) == f.started

new_command_list_assert_none(f) == TRUE

new_command_list_assert(f) == f.started

start_new_dropping(f) ==
    [f EXCEPT !.used_command_lists = <<>>, !.started = TRUE]

\* Frame::start_new after the wait: the used lists are appended to the
\* available ones and the slot is started.
start_new(f) ==
    [f EXCEPT !.available_command_lists = @ \o f.used_command_lists,
              !.used_command_lists = <<>>,
              !.started = TRUE]

\* command_allocator.Reset() of slot i, as the device sees it
allocator_reset(i, waited) ==
    [slot |-> i, fence_value |-> frames[i].fence_value, completed |-> fence,
     waited |-> waited, resets |-> reset_log.resets + 1]

end_unrecorded(f, value) == [f EXCEPT !.started = FALSE]

\* Frame::end
end(f, value) == [f EXCEPT !.fence_value = value, !.started = FALSE]

----------------------------------------------------------------------------
\* FrameManager (renderer.rs:265-301); ret is where the caller continues.

next_index_stay(i) == i

\* self.frame_index = (self.frame_index + 1) % FRAME_COUNT
next_index(i) == (i + 1) % FRAME_COUNT

start_new_frame(ret) ==
    LET i == next_index(frame_index)
        f == frames[i]
    IN  /\ frame_index' = i
        /\ IF ~start_new_assert(f)
           THEN \* assert!(!self.started)
                /\ pc' = "trapped"
                /\ trap' = "start_new"
                /\ UNCHANGED <<frames, reset_log, event_target>>
           ELSE IF wait_ready(f)
           THEN /\ frames' = [frames EXCEPT ![i] = start_new(f)]
                /\ reset_log' = allocator_reset(i, FALSE)
                /\ pc' = ret
                /\ UNCHANGED <<trap, event_target>>
           ELSE \* SetEventOnCompletion, then blocked in WaitForSingleObject
                /\ event_target' = f.fence_value
                /\ pc' = "start_wait"
                /\ UNCHANGED <<frames, reset_log, trap>>
        /\ UNCHANGED <<fence, fence_event, queue, next_fence_value,
                       command_lists, worldVars, memoryVars, swapVars, cl, drop_index,
                       signal_log, dispatch_log, staging_write, scatter_calls>>

\* WaitForSingleObject returns in Frame::wait; the rest of Frame::start_new
start_new_frame_resume(ret) ==
    /\ fence_event
    /\ fence_event' = FALSE
    /\ frames' = [frames EXCEPT ![frame_index] = start_new(@)]
    /\ reset_log' = allocator_reset(frame_index, TRUE)
    /\ pc' = ret
    /\ UNCHANGED <<fence, event_target, queue, next_fence_value, frame_index,
                   command_lists, worldVars, memoryVars, swapVars, trap, cl, drop_index,
                   signal_log, dispatch_log, staging_write, scatter_calls>>

\* self.next_fence_value += 1
increment_none(v) == v

increment(v) == v + 1

\* end_frame that waits for the fence to reach the value it has signalled
end_frame_flush(ret) ==
    LET f == frames[frame_index] IN
    /\ IF ~end_assert(f)
       THEN /\ pc' = "trapped"
            /\ trap' = "end"
            /\ UNCHANGED <<queue, frames, next_fence_value, signal_log,
                           event_target>>
       ELSE /\ queue' = Append(queue, SignalItem(next_fence_value))
            /\ frames' = [frames EXCEPT ![frame_index] = end(f, next_fence_value)]
            /\ next_fence_value' = increment(next_fence_value)
            /\ signal_log' = Append(signal_log,
                                    [slot |-> frame_index, value |-> next_fence_value])
            /\ event_target' = next_fence_value
            /\ pc' = "start_wait"
            /\ UNCHANGED trap
    /\ UNCHANGED <<fence, fence_event, frame_index, command_lists,
                   worldVars, memoryVars, swapVars, cl, drop_index, reset_log, dispatch_log,
                   staging_write, scatter_calls>>

end_frame(ret) ==
    LET f == frames[frame_index] IN
    /\ IF ~end_assert(f)
       THEN \* assert!(self.started)
            /\ pc' = "trapped"
            /\ trap' = "end"
            /\ UNCHANGED <<queue, frames, next_fence_value, signal_log>>
       ELSE /\ queue' = Append(queue, SignalItem(next_fence_value))
            /\ frames' = [frames EXCEPT ![frame_index] = end(f, next_fence_value)]
            /\ next_fence_value' = increment(next_fence_value)
            /\ signal_log' = Append(signal_log,
                                    [slot |-> frame_index, value |-> next_fence_value])
            /\ pc' = ret
            /\ UNCHANGED trap
    /\ UNCHANGED <<fence, fence_event, event_target, frame_index, command_lists,
                   worldVars, memoryVars, swapVars, cl, drop_index, reset_log, dispatch_log,
                   staging_write, scatter_calls>>

\* A list in the recording state on the active slot's allocator
NewList(creator) ==
    [created_by |-> creator, allocator |-> frame_index,
     recording |-> TRUE, cmds |-> <<>>]

pop_rest_peek(avail) == avail

\* what available_command_lists.pop() leaves in the vector
pop_rest(avail) == SubSeq(avail, 1, Len(avail) - 1)

new_command_list(ret) ==
    LET f == frames[frame_index]
        avail == f.available_command_lists
    IN
    /\ IF ~new_command_list_assert(f)
       THEN \* assert!(self.started)
            /\ pc' = "trapped"
            /\ trap' = "new_command_list"
            /\ UNCHANGED <<frames, command_lists, cl>>
       ELSE /\ LET id == IF avail = <<>>
                         THEN Len(command_lists) + 1      \* CreateCommandList
                         ELSE avail[Len(avail)]           \* pop()
               IN /\ command_lists' =
                        IF avail = <<>>
                        THEN Append(command_lists, NewList(frame_index))
                        ELSE [command_lists EXCEPT
                                 ![id] = NewList(command_lists[id].created_by)]
                  /\ frames' = [frames EXCEPT ![frame_index] =
                        [f EXCEPT !.available_command_lists =
                                      IF avail = <<>> THEN <<>>
                                      ELSE pop_rest(avail),
                                  !.used_command_lists = Append(@, id)]]
                  /\ cl' = id
            /\ pc' = ret
            /\ UNCHANGED trap
    /\ UNCHANGED <<deviceVars, next_fence_value, frame_index, worldVars,
                   memoryVars, swapVars, drop_index, historyVars>>

\* Drop for FrameManager: wait on each slot in turn, starting at slot i.
first_blocking_none(i) == FRAME_COUNT

RECURSIVE first_blocking(_)
first_blocking(i) ==
    IF i >= FRAME_COUNT THEN FRAME_COUNT
    ELSE IF wait_ready(frames[i]) THEN first_blocking(i + 1)
    ELSE i

drop(i) ==
    LET j == first_blocking(i) IN
    /\ IF j = FRAME_COUNT
       THEN /\ pc' = "dropped"
            /\ UNCHANGED <<event_target, drop_index>>
       ELSE /\ pc' = "drop_wait"
            /\ drop_index' = j
            /\ event_target' = frames[j].fence_value
    /\ UNCHANGED <<fence, queue, managerVars, worldVars, memoryVars, swapVars, trap, cl,
                   historyVars>>

----------------------------------------------------------------------------
\* World (particle_life/mod.rs:41-154)

\* World::update_buffers maps and writes this staging buffer
staging == StagingBuffers[1]

\* a recorded command; count is the thread-group count of a dispatch or the
\* vertex count of a draw, tick the update a dispatch belongs to
Cmd(op, src, dst, what, count, tick) ==
    [op |-> op, src |-> src, dst |-> dst, what |-> what, count |-> count,
     tick |-> tick, dst_offset |-> 0, src_offset |-> 0, size |-> 0]

\* cl.CopyBufferRegion(dst, dst_offset, src, src_offset, size), offsets and
\* size in bytes
CopyBufferRegion(dst, dst_offset, src, src_offset, size, what) ==
    [Cmd("copy", src, dst, what, 0, 0) EXCEPT !.dst_offset = dst_offset,
                                              !.src_offset = src_offset,
                                              !.size = size]

\* size_of of a #[repr(C)] struct: each field at the next offset of its
\* alignment, the whole rounded up to the largest alignment
align_up(offset, align) == ((offset + align - 1) \div align) * align

RECURSIVE fields_end(_, _)
fields_end(fields, offset) ==
    IF fields = <<>> THEN offset
    ELSE fields_end(Tail(fields),
                    align_up(offset, Head(fields).align) + Head(fields).size)

size_of(fields) ==
    LET aligns == {fields[k].align : k \in DOMAIN fields}
        largest == CHOOSE a \in aligns : \A b \in aligns : b <= a
    IN align_up(fields_end(fields, 0), largest)

U8 == [size |-> 1, align |-> 1]
U32 == [size |-> 4, align |-> 4]
F32 == [size |-> 4, align |-> 4]
\* [f32; 2] and Vec2<f32>
F32x2 == [size |-> 2 * F32.size, align |-> F32.align]

\* struct ShaderGlobalConstants
ShaderGlobalConstants == <<U32, U32, F32x2>>
\* struct Particle: position, velocity, particle_type, force
Particle == <<F32x2, F32x2, U8, F32x2>>
\* struct Rule
Rule == <<F32, F32, F32>>

\* World::new
num_rules == ParticleType_MAX * ParticleType_MAX
constant_buffer_size == size_of(ShaderGlobalConstants) + size_of(Rule) * num_rules
particle_buffer_size(n) == n * size_of(Particle)
\* the size each of World::staging_buffers is created with
staging_buffer_size(n) == particle_buffer_size(n) + constant_buffer_size

\* size_of_val(rules): struct Rules { rules: [Rule; MAX * MAX] }
size_of_Rules == size_of(Rule) * (ParticleType_MAX * ParticleType_MAX)

advance_none(dest_offset, size) == dest_offset

\* dest_offset += size
advance(dest_offset, size) == dest_offset + size

\* dest_offset of World::update_buffers when the rules are written, and when
\* the particles are
rules_offset == advance(0, size_of(ShaderGlobalConstants))
particles_offset == advance(rules_offset, size_of_Rules)

reset_pending_cleared == FALSE

\* self.reset_particles as World::update_buffers reads it
reset_pending == reset_particles

\* the rule table copied only by the first update and by an update that
\* follows a regeneration
update_buffers_on_regeneration ==
    <<CopyBufferRegion("constant_buffer", 0, staging, 0,
                       size_of(ShaderGlobalConstants), "shader_constants")>>
    \o (IF dispatch_log = <<>>
           \/ dispatch_log[Len(dispatch_log)].rules # world_rules
        THEN <<CopyBufferRegion("constant_buffer", rules_offset, staging,
                                rules_offset, size_of_Rules, "rules")>>
        ELSE <<>>)
    \o (IF reset_pending
        THEN <<CopyBufferRegion(old_particles, 0, staging, particles_offset,
                                num_particles * size_of(Particle),
                                "particles")>>
        ELSE <<>>)

\* the copies World::update_buffers records
update_buffers ==
    <<CopyBufferRegion("constant_buffer", 0, staging, 0,
                       size_of(ShaderGlobalConstants), "shader_constants"),
      CopyBufferRegion("constant_buffer", rules_offset, staging,
                       rules_offset, size_of_Rules, "rules")>>
    \o (IF reset_pending
        THEN <<CopyBufferRegion(old_particles, 0, staging, particles_offset,
                                num_particles * size_of(Particle),
                                "particles")>>
        ELSE <<>>)

\* the byte ranges of the mapped staging buffer World::update_buffers
\* writes: *dest.as_mut_offset(dest_offset) = .. twice, then
\* dest.as_mut_slice_offset(dest_offset, num_particles).copy_from_slice(..)
staging_writes ==
    <<[what |-> "shader_constants", offset |-> 0,
       size |-> size_of(ShaderGlobalConstants)],
      [what |-> "rules", offset |-> rules_offset, size |-> size_of_Rules]>>
    \o (IF reset_pending
        THEN <<[what |-> "particles", offset |-> particles_offset,
                size |-> num_particles * size_of(Particle)]>>
        ELSE <<>>)

dispatch_groups_ceil(n) == (n + DispatchDivisor - 1) \div DispatchDivisor

\* self.shader_constants.num_particles / 32
dispatch_groups(n) == n \div DispatchDivisor

\* the Dispatch World::update records
Dispatch ==
    Cmd("dispatch", old_particles, new_particles, "vertex_buffer",
        dispatch_groups(num_particles), Len(dispatch_log) + 1)

\* a copy out of buffer b is submitted and not yet executed
copy_pending(b) ==
    \E k \in DOMAIN queue :
        \E n \in DOMAIN queue[k].cmds :
            queue[k].cmds[n].op = "copy" /\ queue[k].cmds[n].src = b

swap_none == UNCHANGED <<old_particles, new_particles>>

\* swap(&mut self.old_particles, &mut self.new_particles)
swap ==
    /\ old_particles' = new_particles
    /\ new_particles' = old_particles

\* World::update recording into command list c, given the rule table rules
update(rules, c) ==
    /\ command_lists' = [command_lists EXCEPT
           ![c].cmds = @ \o update_buffers \o <<Dispatch>>]
    /\ staging_mem' = [staging_mem EXCEPT ![staging] = [rules |-> rules]]
    /\ staging_write' = [buffer |-> staging, busy |-> copy_pending(staging),
                         regions |-> staging_writes]
    /\ reset_particles' = FALSE
    /\ dispatch_log' = Append(dispatch_log,
           [srv |-> old_particles, uav |-> new_particles,
            staging |-> staging, rules |-> rules,
            groups |-> dispatch_groups(num_particles),
            reset |-> reset_particles])
    /\ scatter_calls' = [pending |-> 0, last |-> scatter_calls.pending]
    /\ swap
    /\ UNCHANGED <<num_particles, constant_buffer, executed, vertex_buffer,
                   drawn, particles_written, swapVars>>

scatter_toggle ==
    /\ reset_particles' = ~reset_particles
    /\ scatter_calls' = [scatter_calls EXCEPT !.pending = @ + 1]

\* the particle indices the threads of a dispatch of groups thread groups
\* process: thread t of the dispatch processes particle t
processed(groups) == 0 .. (groups * ThreadsPerGroup - 1)

\* World::scatter
scatter ==
    /\ reset_particles' = TRUE
    /\ scatter_calls' = [scatter_calls EXCEPT !.pending = @ + 1]

\* World::get_vertex_buffer: the vertex count
get_vertex_buffer == num_particles

\* the draw of PointsRenderer::render that App::render records, in the
\* frame of the latest World::update
Draw == Cmd("draw", "vertex_buffer", "render_target", "points",
            get_vertex_buffer, Len(dispatch_log))

get_render_target_cached == RenderTargets[1]

\* SwapChain::get_render_target
get_render_target == RenderTargets[back_buffer_index + 1]

\* SwapChain::get_rtv_handle
get_rtv_handle == RtvHandles[back_buffer_index + 1]

\* cl.ResourceBarrier(&[transition_barrier(resource, .., state)])
Transition(resource, state) == Cmd("barrier", resource, resource, state, 0, 0)

\* cl.OMSetRenderTargets(1, Some(&rtv), ..) and cl.ClearRenderTargetView(rtv, ..)
OMSetRenderTargets(rtv) == Cmd("target", rtv, rtv, "rtv", 0, 0)

\* the back buffer after Present: a flip-model swap chain
\* (DXGI_SWAP_EFFECT_FLIP_DISCARD) goes round its BufferCount buffers
present_next(index) == (index + 1) % FRAME_COUNT

\* SwapChain::present
present ==
    /\ queue' = Append(queue, PresentItem(back_buffer_index))
    /\ back_buffer_index' = present_next(back_buffer_index)

execute_command_lists_front(c, cmds) ==
    /\ command_lists' = [command_lists EXCEPT ![c].cmds = @ \o cmds,
                                              ![c].recording = FALSE]
    /\ queue' = <<ListItem(c, command_lists[c].cmds \o cmds)>> \o queue

\* cmds recorded into c, then cl.Close() and Renderer::execute_command_lists
execute_command_lists(c, cmds) ==
    /\ command_lists' = [command_lists EXCEPT ![c].cmds = @ \o cmds,
                                              ![c].recording = FALSE]
    /\ queue' = Append(queue, ListItem(c, command_lists[c].cmds \o cmds))

----------------------------------------------------------------------------
\* Spec: a client that calls the frame manager through Renderer in any
\* order (renderer.rs:108-164).

StartNewFrame ==
    /\ pc = "ready"
    /\ start_new_frame("ready")
    /\ UNCHANGED eventVars

StartNewFrameResume ==
    /\ pc = "start_wait"
    /\ start_new_frame_resume("ready")
    /\ UNCHANGED eventVars

NewCommandList ==
    /\ pc = "ready"
    /\ \/ ~frames[frame_index].started
       \/ Len(frames[frame_index].used_command_lists) < MaxListsPerFrame
    /\ new_command_list("ready")
    /\ UNCHANGED eventVars

EndFrame ==
    /\ pc = "ready"
    /\ next_fence_value <= MaxFrames
    /\ end_frame("ready")
    /\ UNCHANGED eventVars

\* Renderer::shutdown
Shutdown ==
    /\ pc = "ready"
    /\ drop(0)
    /\ UNCHANGED <<fence_event, eventVars>>

DropResume ==
    /\ pc = "drop_wait"
    /\ fence_event
    /\ fence_event' = FALSE
    /\ drop(drop_index + 1)
    /\ UNCHANGED eventVars

Next ==
    \/ StartNewFrame
    \/ StartNewFrameResume
    \/ NewCommandList
    \/ EndFrame
    \/ Shutdown
    \/ DropResume
    \/ DeviceExecute

Spec == Init /\ [][Next]_vars

----------------------------------------------------------------------------
\* SpecApp: the render thread of main.rs (main_thread, App::update,
\* App::render, Drop for App).

\* App::update: ui_state.new_rules and ui_state.reset_particles, as the
\* last draw_ui left them, are drawn from requests
tick_update(requests) ==
    /\ pc = "ready"
    /\ next_fence_value <= MaxFrames
    /\ Len(dispatch_log) < MaxTicks
    /\ \E new_rules \in requests :
          world_rules' = IF new_rules THEN world_rules + 1 ELSE world_rules
    /\ \E reset \in requests :
          IF reset THEN scatter
          ELSE UNCHANGED <<reset_particles, scatter_calls>>
    /\ pc' = "render"
    /\ UNCHANGED <<deviceVars, managerVars, old_particles, new_particles,
                   num_particles, memoryVars, swapVars, trap, cl, drop_index,
                   signal_log, reset_log, dispatch_log, staging_write>>

\* top of 'mainloop without a Quit message, then App::update
AppUpdate ==
    /\ tick_update(BOOLEAN)
    /\ UNCHANGED eventVars

\* ThreadMessage::Quit: break 'mainloop, app is dropped
AppQuit ==
    /\ pc = "ready"
    /\ drop(0)
    /\ UNCHANGED <<fence_event, eventVars>>

AppStartNewFrame ==
    /\ pc = "render"
    /\ start_new_frame("frame")
    /\ UNCHANGED eventVars

AppStartNewFrameResume ==
    /\ pc = "start_wait"
    /\ start_new_frame_resume("frame")
    /\ UNCHANGED eventVars

AppComputeList ==
    /\ pc = "frame"
    /\ new_command_list("compute")
    /\ UNCHANGED eventVars

AppWorldUpdate ==
    /\ pc = "compute"
    /\ update(world_rules, cl)
    /\ pc' = "updated"
    /\ UNCHANGED <<deviceVars, next_fence_value, frame_index, frames,
                   world_rules, trap, cl, drop_index, signal_log, reset_log,
                   eventVars>>

AppExecuteCompute ==
    /\ pc = "updated"
    /\ execute_command_lists(cl, <<>>)
    /\ pc' = "computed"
    /\ UNCHANGED <<fence, fence_event, event_target, next_fence_value,
                   frame_index, frames, worldVars, memoryVars, swapVars, trap, cl,
                   drop_index, historyVars, eventVars>>

AppDrawList ==
    /\ pc = "computed"
    /\ new_command_list("draw")
    /\ UNCHANGED eventVars

lock_ready_always == TRUE

\* Mutex::lock on the Mutex<ImguiManager> returns once the mutex is free
lock_ready == ui_mutex = "free"

\* the draw list is recorded up to the UI section, which locks the UI
\* mutex: the barrier on the render target App::render got before
\* new_command_list (no present lies between), the render-target view and
\* the draw of the points
AppLockUI ==
    /\ pc = "draw"
    /\ lock_ready
    /\ ui_mutex' = "render"
    /\ command_lists' = [command_lists EXCEPT ![cl].cmds =
           @ \o <<Transition(get_render_target, "RENDER_TARGET"),
                  OMSetRenderTargets(get_rtv_handle),
                  Draw>>]
    /\ pc' = "ui"
    /\ UNCHANGED <<deviceVars, next_fence_value, frame_index, frames,
                   worldVars, memoryVars, swapVars, trap, cl,
                   drop_index, historyVars, window_mutex, channel, epc, event,
                   main_thread, events, handled>>

\* Mutex::lock on ImguiManager::window returns once that mutex is free
window_lock_ready == window_mutex = "free"

\* imgui_manager.new_frame: self.window.lock() inside the UI section.  The
\* guard is a temporary of the prepare_frame statement; the render thread
\* keeps the UI mutex until the end of the section, and the window mutex is
\* given back no later than that.
AppNewFrame ==
    /\ pc = "ui"
    /\ window_mutex # "render"
    /\ window_lock_ready
    /\ window_mutex' = "render"
    /\ UNCHANGED <<deviceVars, managerVars, worldVars, memoryVars, swapVars,
                   threadVars, historyVars, ui_mutex, channel, epc, event,
                   main_thread, events, handled>>

\* the UI is drawn and the guard dropped; the barrier back to PRESENT on the
\* render_target of this frame is recorded, the draw list closed and executed
AppDraw ==
    /\ pc = "ui"
    /\ window_mutex = "render"
    /\ window_mutex' = "free"
    /\ ui_mutex' = "free"
    /\ LET render_target == command_lists[cl].cmds[1].src IN
          execute_command_lists(cl, <<Transition(render_target, "PRESENT")>>)
    /\ pc' = "drawn"
    /\ UNCHANGED <<fence, fence_event, event_target, next_fence_value,
                   frame_index, frames, worldVars, memoryVars, swapVars, trap, cl,
                   drop_index, historyVars, channel, epc, event, main_thread,
                   events, handled>>

\* self.renderer.present()
AppPresent ==
    /\ pc = "drawn"
    /\ present
    /\ pc' = "presented"
    /\ UNCHANGED <<fence, fence_event, event_target, managerVars, worldVars,
                   memoryVars, trap, cl, drop_index, historyVars, eventVars>>

AppEndFrame ==
    /\ pc = "presented"
    /\ end_frame("ready")
    /\ UNCHANGED eventVars

NextApp ==
    \/ AppUpdate
    \/ AppQuit
    \/ AppStartNewFrame
    \/ AppStartNewFrameResume
    \/ AppComputeList
    \/ AppWorldUpdate
    \/ AppExecuteCompute
    \/ AppDrawList
    \/ AppLockUI
    \/ AppNewFrame
    \/ AppDraw
    \/ AppPresent
    \/ AppEndFrame
    \/ DropResume
    \/ DeviceExecute

SpecApp == Init /\ [][NextApp]_vars

\* the steps of App::render and of Drop for App once entered
AppFrameStep ==
    \/ AppStartNewFrame
    \/ AppStartNewFrameResume
    \/ AppComputeList
    \/ AppWorldUpdate
    \/ AppExecuteCompute
    \/ AppDrawList
    \/ AppLockUI
    \/ AppNewFrame
    \/ AppDraw
    \/ AppPresent
    \/ AppEndFrame
    \/ DropResume

\* SpecAppLive: the render thread is scheduled whenever it can run, and the
\* device eventually executes what is in its queue
SpecAppLive ==
    /\ SpecApp
    /\ WF_vars(AppFrameStep)
    /\ WF_vars(DeviceExecute)

----------------------------------------------------------------------------
\* SpecThreads: the render thread together with the event-loop thread of
\* main (main.rs:60-83), which shares with it the Mutex<ImguiManager> and
\* the channel of ThreadMessage, and the window mutex inside ImguiManager
\* (imgui_manager.rs:89, 93, 124).

\* enum ThreadMessage: Quit, and Event carrying the event, here the number of
\* the event in the order the event loop delivered them
QuitMessage == [kind |-> "Quit", event |-> 0]
EventMessage(n) == [kind |-> "Event", event |-> n]

\* the events of the messages, the last received first
drain_reversed(messages) ==
    [k \in DOMAIN messages |-> messages[Len(messages) + 1 - k].event]

\* for message in rx.try_iter(): the events app.handle_event is called
\* with for these messages, none of them Quit, in the order received
drain(messages) ==
    [k \in DOMAIN messages |-> messages[k].event]

\* top of 'mainloop: rx.try_iter() yields no Quit; then App::update, no
\* button of the UI having been pressed
ThreadsUpdate ==
    /\ \A k \in DOMAIN channel : channel[k] # QuitMessage
    /\ tick_update({FALSE})
    /\ channel' = <<>>
    /\ handled' = handled \o drain(channel)
    /\ UNCHANGED <<ui_mutex, window_mutex, epc, event, main_thread, events>>

\* Quit acted on wherever the render thread is between two calls of the
\* renderer
ThreadsQuitAnywhere ==
    /\ pc \in {"ready", "frame", "computed", "presented"}
    /\ \E k \in DOMAIN channel :
          /\ channel[k] = QuitMessage
          /\ \A j \in 1 .. (k - 1) : channel[j] # QuitMessage
          /\ channel' = SubSeq(channel, k + 1, Len(channel))
          /\ handled' = handled \o drain(SubSeq(channel, 1, k - 1))
    /\ drop(0)
    /\ UNCHANGED <<fence_event, ui_mutex, window_mutex, epc, event, main_thread,
                   events>>

\* rx.try_iter() yields ThreadMessage::Quit: break 'mainloop, app is dropped
ThreadsQuit ==
    /\ pc = "ready"
    /\ \E k \in DOMAIN channel :
          /\ channel[k] = QuitMessage
          /\ \A j \in 1 .. (k - 1) : channel[j] # QuitMessage
          /\ channel' = SubSeq(channel, k + 1, Len(channel))
          /\ handled' = handled \o drain(SubSeq(channel, 1, k - 1))
    /\ drop(0)
    /\ UNCHANGED <<fence_event, ui_mutex, window_mutex, epc, event, main_thread,
                   events>>

\* the event loop calls the closure with an event, which goes to lock the
\* UI mutex
EventArrive ==
    /\ epc = "idle"
    /\ events < MaxEvents
    /\ \E e \in {"close", "input"} : event' = e
    /\ events' = events + 1
    /\ epc' = "locking"
    /\ UNCHANGED <<deviceVars, managerVars, worldVars, memoryVars, swapVars, threadVars,
                   historyVars, ui_mutex, window_mutex, channel, main_thread,
                   handled>>

\* imgui_manager.lock() returns
EventLock ==
    /\ epc = "locking"
    /\ lock_ready
    /\ ui_mutex' = "event"
    /\ epc' = "handling"
    /\ UNCHANGED <<deviceVars, managerVars, worldVars, memoryVars, swapVars, threadVars,
                   historyVars, window_mutex, channel, event, main_thread,
                   events, handled>>

\* ImguiManager::handle_event: self.window.lock() for a window event, with
\* the UI mutex held
EventWindowLock ==
    /\ epc = "handling"
    /\ window_mutex # "event"
    /\ window_lock_ready
    /\ window_mutex' = "event"
    /\ UNCHANGED <<deviceVars, managerVars, worldVars, memoryVars, swapVars,
                   threadVars, historyVars, ui_mutex, channel, epc, event,
                   main_thread, events, handled>>

handle_event_guard_kept == "event"

\* the guard of imgui_manager.lock() is a temporary of the statement that
\* calls handle_event: the UI mutex is free once the statement ends
handle_event_guard == "free"

is_some_always == TRUE

\* main_thread.is_some()
is_some == main_thread

\* handle_event returns pass_event_to_app and the guard is dropped; then
\* CloseRequested sends Quit and goes to join the render thread, any other
\* event is forwarded if the render thread is there and imgui passes it
EventHandle ==
    /\ epc = "handling"
    /\ window_mutex = "event"
    /\ window_mutex' = "free"
    /\ ui_mutex' = handle_event_guard
    /\ \E pass_event_to_app \in (IF event = "close" THEN {TRUE} ELSE BOOLEAN) :
          IF event = "close" /\ main_thread    \* main_thread.take()
          THEN /\ main_thread' = FALSE
               /\ channel' = Append(channel, QuitMessage)
               /\ epc' = "joining"
          ELSE /\ channel' = IF is_some /\ pass_event_to_app
                             THEN Append(channel, EventMessage(events))
                             ELSE channel
               /\ epc' = "idle"
               /\ UNCHANGED main_thread
    /\ UNCHANGED <<deviceVars, managerVars, worldVars, memoryVars, swapVars, threadVars,
                   historyVars, event, events, handled>>

\* thread.join() returns: the render thread has ended; elwt.exit()
EventJoin ==
    /\ epc = "joining"
    /\ pc \in {"dropped", "trapped"}
    /\ epc' = "idle"
    /\ UNCHANGED <<deviceVars, managerVars, worldVars, memoryVars, swapVars, threadVars,
                   historyVars, ui_mutex, window_mutex, channel, event,
                   main_thread, events, handled>>

\* the steps of the render thread
RenderStep ==
    \/ ThreadsUpdate
    \/ ThreadsQuit
    \/ AppStartNewFrame
    \/ AppStartNewFrameResume
    \/ AppComputeList
    \/ AppWorldUpdate
    \/ AppExecuteCompute
    \/ AppDrawList
    \/ AppLockUI
    \/ AppNewFrame
    \/ AppDraw
    \/ AppPresent
    \/ AppEndFrame
    \/ DropResume

\* the steps of the event-loop thread
EventStep ==
    \/ EventArrive
    \/ EventLock
    \/ EventWindowLock
    \/ EventHandle
    \/ EventJoin

NextThreads ==
    \/ RenderStep
    \/ EventStep
    \/ DeviceExecute

SpecThreads == Init /\ [][NextThreads]_vars

\* SpecThreadsLive: the render thread is scheduled whenever it can run, the
\* device eventually executes what is in its queue, and thread.join()
\* returns once the render thread has ended
SpecThreadsLive ==
    /\ SpecThreads
    /\ WF_vars(RenderStep)
    /\ WF_vars(DeviceExecute)
    /\ WF_vars(EventJoin)

----------------------------------------------------------------------------
\* SpecWorld: a World of any particle count whose scatter and update are
\* called in any order and any number of times while the command lists of
\* one frame are recorded and executed (particle_life/mod.rs:76-100).

WorldStartNewFrame ==
    /\ pc = "ready"
    /\ start_new_frame("frame")
    /\ UNCHANGED eventVars

WorldCommandList ==
    /\ pc = "frame"
    /\ Len(frames[frame_index].used_command_lists) < MaxListsPerFrame
    /\ new_command_list("world")
    /\ UNCHANGED eventVars

WorldScatter ==
    /\ pc = "world"
    /\ scatter_calls.pending < MaxScatters
    /\ scatter
    /\ UNCHANGED <<deviceVars, managerVars, old_particles, new_particles,
                   num_particles, world_rules, memoryVars, swapVars, threadVars,
                   signal_log, reset_log, dispatch_log, staging_write,
                   eventVars>>

WorldUpdate ==
    /\ pc = "world"
    /\ Len(dispatch_log) < MaxTicks
    /\ update(world_rules, cl)
    /\ UNCHANGED <<deviceVars, next_fence_value, frame_index, frames,
                   world_rules, threadVars, signal_log, reset_log, eventVars>>

WorldExecute ==
    /\ pc = "world"
    /\ execute_command_lists(cl, <<>>)
    /\ pc' = "frame"
    /\ UNCHANGED <<fence, fence_event, event_target, next_fence_value,
                   frame_index, frames, worldVars, memoryVars, swapVars, trap, cl,
                   drop_index, historyVars, eventVars>>

WorldEndFrame ==
    /\ pc = "frame"
    /\ end_frame("ended")
    /\ UNCHANGED eventVars

NextWorld ==
    \/ WorldStartNewFrame
    \/ WorldCommandList
    \/ WorldScatter
    \/ WorldUpdate
    \/ WorldExecute
    \/ WorldEndFrame
    \/ DeviceExecute

SpecWorld == InitWorld /\ [][NextWorld]_vars

----------------------------------------------------------------------------
\* Properties

Watermarks == {signal_log[k].value : k \in DOMAIN signal_log}

\* ended frames whose watermark the fence has not reached
Outstanding == Cardinality({k \in DOMAIN signal_log : signal_log[k].value > fence})

StartedSlots == {i \in Slots : frames[i].started}

\* C1: no premature reuse.  Whenever Frame::start_new has reset a slot's
\* command allocator, the fence's completed value at that moment was at
\* least the slot's fence_value, or the slot's fence_value was 0; this holds
\* for every order of calls and every pace of the device.
NoPrematureReuse ==
    reset_log.resets > 0 =>
        \/ reset_log.fence_value = 0
        \/ reset_log.completed >= reset_log.fence_value

\* a slot submitted before was reset after start_new_frame had blocked
NoPrematureReuseWitness ==
    /\ reset_log.waited
    /\ reset_log.fence_value > 0
    /\ reset_log.completed >= reset_log.fence_value

\* C2: fence monotonicity.  The values end_frame signals on the queue are
\* strictly increasing in call order, and each slot's recorded watermark is
\* the value signalled by the last end_frame of that slot.
FenceMonotonicity ==
    /\ \A a, b \in DOMAIN signal_log :
          a < b => signal_log[a].value < signal_log[b].value
    /\ \A i \in Slots :
          LET mine == {k \in DOMAIN signal_log : signal_log[k].slot = i} IN
          frames[i].fence_value =
              IF mine = {} THEN 0
              ELSE signal_log[CHOOSE k \in mine : \A m \in mine : m <= k].value

\* three frames have ended and slot 1's first watermark was overwritten
FenceMonotonicityWitness ==
    /\ Len(signal_log) >= 3
    /\ \E a, b \in DOMAIN signal_log :
          a < b /\ signal_log[a].slot = signal_log[b].slot

\* C3: staging exclusivity.  When World::update has written a staging
\* buffer from the CPU, no copy out of that buffer submitted in an earlier
\* frame was still waiting to be executed by the device.
StagingExclusive == ~staging_write.busy

\* C4: ping-pong.  The two particle buffers are always one current and one
\* next; the k-th dispatch reads buffer (k-1) mod 2 and writes buffer k mod 2,
\* each dispatch reads what the one before it wrote, and after an update the
\* current buffer is the one the last dispatch wrote.
PingPong ==
    LET n == Len(dispatch_log) IN
    /\ old_particles # new_particles
    /\ {old_particles, new_particles} =
          {ParticleBuffers[1], ParticleBuffers[2]}
    /\ old_particles = ParticleBuffers[(n % 2) + 1]
    /\ \A k \in DOMAIN dispatch_log :
          /\ dispatch_log[k].srv = ParticleBuffers[((k - 1) % 2) + 1]
          /\ dispatch_log[k].uav = ParticleBuffers[(k % 2) + 1]
          /\ k > 1 => dispatch_log[k].srv = dispatch_log[k - 1].uav
    /\ n > 0 => old_particles = dispatch_log[n].uav

\* three updates have run: the roles went A, B, A
PingPongWitness ==
    /\ Len(dispatch_log) >= 3
    /\ dispatch_log[3].srv = dispatch_log[1].srv
    /\ old_particles = ParticleBuffers[2]

\* C5: teardown completeness.  When Drop for FrameManager has returned, the
\* fence has reached every slot's watermark and every value end_frame ever
\* signalled, and the queue holds no submitted work.
TeardownComplete ==
    pc = "dropped" =>
        /\ \A i \in Slots : frames[i].fence_value <= fence
        /\ \A v \in Watermarks : v <= fence
        /\ fence >= next_fence_value - 1
        /\ queue = <<>>

\* teardown returned after at least two frames had been submitted
TeardownCompleteWitness ==
    /\ pc = "dropped"
    /\ Len(signal_log) >= 2
    /\ fence = next_fence_value - 1

\* C6: pipelining bound.  From the return of start_new_frame until the
\* frame is ended, at most FRAME_COUNT - 1 ended frames have a watermark the
\* fence has not reached.
PipeliningBound ==
    (pc = "ready" /\ frames[frame_index].started) =>
        Outstanding <= FRAME_COUNT - 1

\* start_new_frame blocked, returned, and one frame is still outstanding
PipeliningBoundWitness ==
    /\ pc = "ready"
    /\ frames[frame_index].started
    /\ reset_log.waited
    /\ reset_log.slot = frame_index
    /\ Outstanding = FRAME_COUNT - 1

\* C7: double begin is rejected.  A start_new_frame called while the
\* active slot is started (no end_frame since the last start_new_frame)
\* fails an assertion.
DoubleBeginRejected ==
    [][(StartNewFrame /\ frames[frame_index].started) => pc' = "trapped"]_vars

\* C8: end without begin is rejected.  An end_frame called while the active
\* slot is not started fails the assertion and leaves next_fence_value, the
\* slots and the queue as they were; an end_frame that succeeds leaves the
\* active slot not started, and end_frame has succeeded at most as often as
\* start_new_frame.
EndWithoutBeginRejected ==
    /\ [][(EndFrame /\ ~frames[frame_index].started) =>
             /\ pc' = "trapped"
             /\ trap' = "end"
             /\ UNCHANGED <<next_fence_value, frames, queue, signal_log>>]_vars
    /\ [][(EndFrame /\ pc' = "ready") =>
             /\ frames[frame_index].started
             /\ ~frames'[frame_index].started]_vars
    /\ [](Len(signal_log) <= reset_log.resets)

\* a second end_frame after a frame was started and ended has trapped
EndWithoutBeginWitness ==
    /\ trap = "end"
    /\ Len(signal_log) >= 1
    /\ next_fence_value = Len(signal_log) + 1

\* C9: a command list cannot be acquired outside a begin/end window.
\* new_command_list called while the active slot is not started fails the
\* assertion, creates no command list and leaves the slot's available and
\* used lists as they were.
NewCommandListRejected ==
    [][(NewCommandList /\ ~frames[frame_index].started) =>
          /\ pc' = "trapped"
          /\ trap' = "new_command_list"
          /\ UNCHANGED <<frames, command_lists, cl>>]_vars

\* new_command_list has trapped after end_frame, the slot holding a used list
NewCommandListRejectedWitness ==
    /\ trap = "new_command_list"
    /\ Len(signal_log) >= 1
    /\ frames[frame_index].used_command_lists # <<>>

\* C10: as long as no call has trapped, frame_index is a slot index and at
\* most one slot is started.
OneSlotStarted ==
    pc # "trapped" =>
        /\ frame_index \in Slots
        /\ Cardinality(StartedSlots) <= 1

\* the commands an action has appended to the command list the caller holds
Recorded ==
    SubSeq(command_lists'[cl].cmds, Len(command_lists[cl].cmds) + 1,
           Len(command_lists'[cl].cmds))

\* C11: particle reset ordering.  An update entered with reset_particles set
\* records one copy of the generated particles whose target is the buffer
\* this update's dispatch reads (old_particles), records it before that
\* dispatch, and leaves reset_particles cleared; an update entered with
\* reset_particles clear records no copy of particles.
ResetOrdering ==
    [][WorldUpdate =>
          LET copies == {i \in DOMAIN Recorded : Recorded[i].what = "particles"}
              dispatches == {j \in DOMAIN Recorded : Recorded[j].op = "dispatch"}
          IN  /\ Cardinality(dispatches) = 1
              /\ \A j \in dispatches : Recorded[j].src = old_particles
              /\ ~reset_particles'
              /\ IF reset_particles
                 THEN /\ Cardinality(copies) = 1
                      /\ \A i \in copies : \A j \in dispatches :
                            /\ i < j
                            /\ Recorded[i].op = "copy"
                            /\ Recorded[i].dst = Recorded[j].src
                 ELSE copies = {}]_vars

\* a second update, after a scatter, has recorded the copy into the buffer
\* its dispatch reads
ResetOrderingWitness ==
    /\ ~reset_particles
    /\ \E c \in DOMAIN command_lists :
          LET cmds == command_lists[c].cmds IN
          \E i, j \in DOMAIN cmds :
             /\ i < j
             /\ cmds[i].what = "particles"
             /\ cmds[j].op = "dispatch"
             /\ cmds[j].tick >= 2
             /\ cmds[i].dst = cmds[j].src
             /\ cmds[i].dst = ParticleBuffers[2]

\* C12: reset idempotence within a tick.  The state after scatter does not
\* depend on how often scatter was called since the last update: a reset is
\* pending exactly when scatter was called at least once (or no update has
\* run since construction); each update regenerates the particles once when
\* at least one scatter preceded it and not at all when none did, and
\* leaves no reset pending.
ResetIdempotent ==
    /\ reset_particles = (scatter_calls.pending >= 1 \/ dispatch_log = <<>>)
    /\ dispatch_log # <<>> =>
          dispatch_log[Len(dispatch_log)].reset =
              (scatter_calls.last >= 1 \/ Len(dispatch_log) = 1)
    /\ \A c \in DOMAIN command_lists :
          LET cmds == command_lists[c].cmds IN
          \A j \in DOMAIN cmds :
             cmds[j].op = "dispatch" =>
                Cardinality({i \in DOMAIN cmds :
                                /\ cmds[i].what = "particles"
                                /\ i < j
                                /\ \A d \in (i + 1) .. (j - 1) :
                                      cmds[d].op # "dispatch"})
                   = IF dispatch_log[cmds[j].tick].reset THEN 1 ELSE 0

\* scatter was called at least twice before the last update, not the first
\* one, which regenerated once and left no reset pending
ResetIdempotentWitness ==
    LET n == Len(dispatch_log) IN
    /\ n >= 2
    /\ scatter_calls.last >= 2
    /\ scatter_calls.pending = 0
    /\ dispatch_log[n].reset
    /\ ~reset_particles
    /\ \E c \in DOMAIN command_lists :
          Cardinality({i \in DOMAIN command_lists[c].cmds :
                          /\ command_lists[c].cmds[i].what = "particles"
                          /\ command_lists[c].cmds[i].dst = dispatch_log[n].srv})
             >= 1

\* C13: rule-table atomicity.  The rule table every executed dispatch has
\* read is the table the CPU staged in the update that recorded this
\* dispatch, whatever the pace of the device.
RuleTableAtomic ==
    \A k \in DOMAIN executed :
       executed[k].rules = dispatch_log[executed[k].tick].rules

\* every start_new_frame so far was followed by an end_frame before the
\* next one, and no call has trapped
Paired == pc # "trapped" /\ StartedSlots \subseteq {frame_index}

\* C14 as stated: begin/end pairs record the watermarks slot 0 = 1,
\* slot 1 = 2, slot 0 = 3, and with the device caught up no call blocks.
ScenarioSlotZeroFirst ==
    /\ [](Paired =>
            \A k \in DOMAIN signal_log :
               /\ signal_log[k].value = k
               /\ signal_log[k].slot = (k - 1) % FRAME_COUNT)
    /\ [][(StartNewFrame /\ queue = <<>>) => pc' # "start_wait"]_vars

\* C14: scenario with FRAME_COUNT = 2 and the fence starting at 0.  Begin/end
\* pairs record the watermarks slot 1 = 1, slot 0 = 2, slot 1 = 3
\* (overwriting 1): the k-th pair signals k and records it in slot
\* k mod FRAME_COUNT.  A start_new_frame called when the device has
\* completed everything submitted does not block, and end_frame never blocks.
ScenarioSlotOneFirst ==
    /\ [](Paired =>
            /\ \A k \in DOMAIN signal_log :
                  /\ signal_log[k].value = k
                  /\ signal_log[k].slot = k % FRAME_COUNT
            /\ \A i \in Slots :
                  LET mine == {k \in DOMAIN signal_log : k % FRAME_COUNT = i} IN
                  frames[i].fence_value =
                      IF mine = {} THEN 0
                      ELSE CHOOSE k \in mine : \A m \in mine : m <= k)
    /\ [][(StartNewFrame /\ queue = <<>>) => pc' # "start_wait"]_vars
    /\ [][EndFrame => pc' \in {"ready", "trapped"}]_vars

\* three pairs have run with the device caught up before each call: the
\* watermarks are slot 1 = 3 (1 overwritten), slot 0 = 2, no call waited
ScenarioWitness ==
    /\ Paired
    /\ Len(signal_log) = 3
    /\ signal_log[1].slot = 1 /\ signal_log[2].slot = 0 /\ signal_log[3].slot = 1
    /\ frames[1].fence_value = 3
    /\ frames[0].fence_value = 2
    /\ reset_log.resets = 3
    /\ ~reset_log.waited
    /\ fence = 3
    /\ queue = <<>>

\* C15: valid vertex count.  After an update, every vertex index below the
\* count World::get_vertex_buffer returns was written by the dispatch of
\* the most recent update, for every num_particles.
ValidVertexCount ==
    dispatch_log # <<>> =>
        \A v \in 0 .. (get_vertex_buffer - 1) :
           v \in processed(dispatch_log[Len(dispatch_log)].groups)

\* C16: every dispatch update records uses ceil(num_particles / 32) thread
\* groups: the least count whose 32-fold is at least num_particles.
DispatchCeil ==
    \A k \in DOMAIN dispatch_log :
       LET g == dispatch_log[k].groups IN
       /\ g * DispatchDivisor >= num_particles
       /\ (g - 1) * DispatchDivisor < num_particles

\* C17: dispatch-size scenario.  With num_particles = 64 every update
\* dispatches exactly 2 thread groups and they process all of the particles
\* 0 .. 63; with num_particles = 65 every update dispatches exactly 2 thread
\* groups and no dispatch processes particle 64.
DispatchScenario ==
    /\ num_particles = 64 =>
          \A k \in DOMAIN dispatch_log :
             /\ dispatch_log[k].groups = 2
             /\ processed(dispatch_log[k].groups) = 0 .. 63
    /\ num_particles = 65 =>
          /\ \A k \in DOMAIN dispatch_log :
                /\ dispatch_log[k].groups = 2
                /\ 64 \notin processed(dispatch_log[k].groups)
          /\ \A c \in DOMAIN command_lists :
                \A j \in DOMAIN command_lists[c].cmds :
                   command_lists[c].cmds[j].op = "dispatch" =>
                      command_lists[c].cmds[j].count = 2

\* a World of 65 particles was updated twice and the device has executed a
\* dispatch of 2 groups
DispatchScenarioWitness ==
    /\ num_particles = 65
    /\ Len(dispatch_log) >= 2
    /\ dispatch_log[2].groups = 2
    /\ executed # <<>>

\* C18: staging alternation.  Two consecutive updates never map and write
\* the same staging buffer: update k (counted from 0) uses staging buffer
\* k mod 2.
StagingAlternates ==
    \A k \in DOMAIN dispatch_log :
       /\ dispatch_log[k].staging = StagingBuffers[((k - 1) % 2) + 1]
       /\ k > 1 => dispatch_log[k].staging # dispatch_log[k - 1].staging

\* C20: round-robin slot selection.  Every start_new_frame sets frame_index
\* to (frame_index + 1) mod FRAME_COUNT, and the slot it starts is the one
\* at the new index; counted from the initial frame_index 0, the k-th frame
\* runs in slot k mod FRAME_COUNT, so a slot is reused every FRAME_COUNT
\* frames.
RoundRobin ==
    /\ [][StartNewFrame =>
             /\ frame_index' = (frame_index + 1) % FRAME_COUNT
             /\ pc' = "ready" =>
                   /\ frames'[frame_index'].started
                   /\ reset_log'.slot = frame_index'
                   /\ \A i \in Slots \ {frame_index'} : frames'[i] = frames[i]]_vars
    /\ [](pc # "trapped" =>
             /\ reset_log.resets > 0 =>
                   reset_log.slot = reset_log.resets % FRAME_COUNT
             /\ frame_index =
                   IF pc = "start_wait"
                   THEN (reset_log.resets + 1) % FRAME_COUNT
                   ELSE reset_log.resets % FRAME_COUNT)

\* the third frame has started: it runs in slot 1, as the first did
RoundRobinWitness ==
    /\ pc = "ready"
    /\ reset_log.resets = 3
    /\ reset_log.slot = 1
    /\ frame_index = 1
    /\ frames[1].started
    /\ \E k \in DOMAIN signal_log : signal_log[k].slot = 1

\* the render thread has ended
RenderDone == pc \in {"dropped", "trapped"}

\* the render thread is in WaitForSingleObject, waiting for the device
DeviceWait == pc \in {"start_wait", "drop_wait"}

\* the render thread is at the top of 'mainloop and the bounds of the model
\* allow no further tick
RenderAtBound ==
    pc = "ready" /\ ~(next_fence_value <= MaxFrames /\ Len(dispatch_log) < MaxTicks)

\* the event loop has delivered all the events the bound allows
EventsAtBound == epc = "idle" /\ events >= MaxEvents

\* C19 as stated: the render thread never blocks on the event thread (every
\* step of the render loop that is not waiting for the device can be taken),
\* and the event thread blocks only on acquiring the UI mutex.
RenderNeverBlocksOnEvent ==
    /\ []((~RenderDone /\ ~DeviceWait /\ ~RenderAtBound) => ENABLED RenderStep)
    /\ [](~ENABLED EventStep => (epc = "locking" \/ EventsAtBound))

\* C19: the render thread waits for the event thread at one place only, the
\* acquisition of the UI mutex in App::render while the event thread is in
\* handle_event; the message drain, App::update and the rest of App::render
\* never wait for it.  A thread that holds the UI mutex can always take its
\* next step, so that wait ends.  The event thread blocks on acquiring the
\* UI mutex while the render thread holds it, and in thread.join() until the
\* render thread has ended.
BlocksOnlyOnUIMutex ==
    /\ []((~RenderDone /\ ~DeviceWait /\ ~RenderAtBound) =>
             (ENABLED RenderStep <=> ~(pc = "draw" /\ ui_mutex = "event")))
    /\ [](ui_mutex = "event" =>
             (epc = "handling" /\ ENABLED (EventWindowLock \/ EventHandle)))
    /\ [](ui_mutex = "render" =>
             (pc = "ui" /\ ENABLED (AppNewFrame \/ AppDraw)))
    /\ [](~ENABLED EventStep =>
             \/ epc = "locking" /\ ui_mutex = "render"
             \/ epc = "joining" /\ ~RenderDone
             \/ EventsAtBound)

\* App::render has reached the UI section in its second frame while the
\* event thread holds the UI mutex in handle_event
BlocksOnlyOnUIMutexWitness ==
    /\ pc = "draw"
    /\ ui_mutex = "event"
    /\ epc = "handling"
    /\ Len(signal_log) >= 1

\* C21: start_new_frame does not over-synchronize.  It returns without
\* waiting when the entered slot's fence_value is 0 or the fence has reached
\* it, whatever later frames are still outstanding; when it waits, the value
\* it waits for is the entered slot's fence_value, which the fence has not
\* reached.
NoOverSync ==
    [][StartNewFrame =>
          LET f == frames[(frame_index + 1) % FRAME_COUNT] IN
          /\ (~f.started /\ (f.fence_value = 0 \/ fence >= f.fence_value)) =>
                /\ pc' = "ready"
                /\ ~reset_log'.waited
                /\ UNCHANGED <<event_target, fence_event>>
          /\ pc' = "start_wait" =>
                /\ event_target' = f.fence_value
                /\ f.fence_value # 0
                /\ fence < f.fence_value]_vars

\* a slot submitted before was entered without a wait while the frame
\* submitted last had not completed
NoOverSyncWitness ==
    /\ pc = "ready"
    /\ frames[frame_index].started
    /\ reset_log.slot = frame_index
    /\ reset_log.fence_value > 0
    /\ ~reset_log.waited
    /\ fence < next_fence_value - 1
    /\ Len(signal_log) = reset_log.resets - 1

\* C22: liveness of frame pacing.  With a device that eventually executes
\* everything submitted, every start_new_frame that waits eventually returns
\* and every tick that has begun eventually ends its frame; and the wait has
\* no timeout: a waiting start_new_frame returns only when the fence has
\* reached the entered slot's fence_value, and until the event is set the
\* render thread can take no step.
FramePacingLive ==
    /\ (pc = "start_wait") ~> (pc = "frame")
    /\ (pc = "render") ~> (pc = "ready")
    /\ [][(pc = "start_wait" /\ pc' # "start_wait") =>
             /\ pc' = "frame"
             /\ fence >= frames[frame_index].fence_value]_vars
    /\ []((pc = "start_wait" /\ ~fence_event) => ~ENABLED AppFrameStep)

\* a start_new_frame that waited has returned in the third frame
FramePacingLiveWitness ==
    /\ pc = "frame"
    /\ reset_log.waited
    /\ reset_log.resets = 3
    /\ reset_log.slot = frame_index
    /\ frames[frame_index].started

\* C23: effect of end_frame.  A successful end_frame appends to the queue a
\* signal of the current next_fence_value, records that value as the active
\* slot's fence_value, clears its started flag, increments next_fence_value
\* by one and leaves the other slots as they were; after k successful calls
\* next_fence_value = k + 1 and the slot ended last has the watermark k.
EndFrameEffect ==
    /\ [][(EndFrame /\ pc' = "ready") =>
             /\ queue' = Append(queue, SignalItem(next_fence_value))
             /\ frames'[frame_index].fence_value = next_fence_value
             /\ ~frames'[frame_index].started
             /\ frames'[frame_index].used_command_lists =
                   frames[frame_index].used_command_lists
             /\ frames'[frame_index].available_command_lists =
                   frames[frame_index].available_command_lists
             /\ next_fence_value' = next_fence_value + 1
             /\ frame_index' = frame_index
             /\ \A i \in Slots \ {frame_index} : frames'[i] = frames[i]]_vars
    /\ [](LET k == Len(signal_log) IN
          /\ next_fence_value = k + 1
          /\ k > 0 => frames[signal_log[k].slot].fence_value = k)

\* three end_frame calls have succeeded: the slot ended last holds 3, the
\* other slot still holds 2
EndFrameEffectWitness ==
    /\ Len(signal_log) = 3
    /\ next_fence_value = 4
    /\ frames[signal_log[3].slot].fence_value = 3
    /\ \E i \in Slots : i # signal_log[3].slot /\ frames[i].fence_value = 2
    /\ ~frames[signal_log[3].slot].started

\* C24: the sentinel 0.  A slot's fence_value is 0 exactly when no end_frame
\* has succeeded on that slot; next_fence_value is at least 1 and never
\* decreases, and every value signalled is at least 1.
SentinelZero ==
    /\ [](\A i \in Slots :
             (frames[i].fence_value = 0) <=>
                 (\A k \in DOMAIN signal_log : signal_log[k].slot # i))
    /\ [](next_fence_value >= 1)
    /\ [](\A k \in DOMAIN signal_log : signal_log[k].value >= 1)
    /\ [][next_fence_value' >= next_fence_value]_vars

\* the first frame has ended on slot 1, slot 0 was started and never ended
SentinelZeroWitness ==
    /\ Len(signal_log) = 1
    /\ frames[1].fence_value = 1
    /\ frames[0].fence_value = 0
    /\ frames[0].started
    /\ fence = 1

\* the command lists created on slot i
CreatedBy(i) == {id \in DOMAIN command_lists : command_lists[id].created_by = i}

\* the elements of a sequence
Range(q) == {q[k] : k \in DOMAIN q}

\* C25: start_new_frame recycles the slot's command lists.  When it has
\* returned, the entered slot's used_command_lists is empty and its
\* available_command_lists holds, once each, every command list created on
\* that slot; the lists of the other slots are as they were.
RecyclesLists ==
    [][((StartNewFrame \/ StartNewFrameResume) /\ pc' = "ready") =>
          LET f == frames'[frame_index'] IN
          /\ f.started
          /\ f.used_command_lists = <<>>
          /\ Range(f.available_command_lists) = CreatedBy(frame_index')
          /\ Len(f.available_command_lists) = Cardinality(CreatedBy(frame_index'))
          /\ command_lists' = command_lists
          /\ \A i \in Slots \ {frame_index'} : frames'[i] = frames[i]]_vars

\* a slot that had acquired two command lists in its last frame was entered
\* again: both are available, none is in use
RecyclesListsWitness ==
    /\ pc = "ready"
    /\ frames[frame_index].started
    /\ reset_log.slot = frame_index
    /\ reset_log.fence_value > 0
    /\ frames[frame_index].used_command_lists = <<>>
    /\ Len(frames[frame_index].available_command_lists) = 2
    /\ Cardinality(CreatedBy(frame_index)) = 2

\* C26: new_command_list.  A successful call takes the last list of the
\* active slot's available list, or creates a list only when that list is
\* empty, and appends the returned list to the used list.  The available
\* and used lists of a slot are disjoint and without repetition, so no list
\* is handed out twice between two starts of the slot; a slot creates a list
\* only when all the lists it owns are in use, so the number it owns is the
\* largest number acquired in one frame of the slot.
AcquireFromFreeList ==
    /\ [][(NewCommandList /\ pc' = "ready") =>
             LET f == frames[frame_index]
                 g == frames'[frame_index]
                 avail == f.available_command_lists
             IN  /\ g.used_command_lists = Append(f.used_command_lists, cl')
                 /\ IF avail = <<>>
                    THEN /\ cl' \notin DOMAIN command_lists
                         /\ DOMAIN command_lists' = DOMAIN command_lists \cup {cl'}
                         /\ command_lists'[cl'].created_by = frame_index
                         /\ g.available_command_lists = <<>>
                         /\ Len(f.used_command_lists) =
                               Cardinality(CreatedBy(frame_index))
                    ELSE /\ cl' = avail[Len(avail)]
                         /\ DOMAIN command_lists' = DOMAIN command_lists
                         /\ g.available_command_lists =
                               SubSeq(avail, 1, Len(avail) - 1)
                 /\ command_lists'[cl'].recording
                 /\ command_lists'[cl'].cmds = <<>>
                 /\ \A i \in Slots \ {frame_index} : frames'[i] = frames[i]]_vars
    /\ [](\A i \in Slots :
             LET a == frames[i].available_command_lists
                 u == frames[i].used_command_lists
             IN  /\ Range(a) \cap Range(u) = {}
                 /\ Len(a) = Cardinality(Range(a))
                 /\ Len(u) = Cardinality(Range(u))
                 /\ Range(a) \cup Range(u) = CreatedBy(i)
                 /\ Len(u) <= Cardinality(CreatedBy(i)))

\* a slot submitted before and entered again owns two lists and has
\* acquired both: none is available, the caller holds the second
AcquireFromFreeListWitness ==
    /\ pc = "ready"
    /\ frames[frame_index].started
    /\ reset_log.slot = frame_index
    /\ reset_log.fence_value > 0
    /\ frames[frame_index].available_command_lists = <<>>
    /\ Len(frames[frame_index].used_command_lists) = 2
    /\ cl = frames[frame_index].used_command_lists[2]
    /\ command_lists[cl].cmds = <<>>
    /\ Len(command_lists) >= 2

\* list id is submitted and the device has not yet executed it
Pending(id) ==
    \E k \in DOMAIN queue : queue[k].kind = "list" /\ queue[k].list = id

\* C27: no reset of a command list in use by the device.  A list that
\* new_command_list resets for recording is not pending on the queue; it is
\* reset against the allocator of the slot that created it; every available
\* list has been executed; and a list stays in the vectors of the slot that
\* created it.
NoResetWhilePending ==
    /\ [][((AppComputeList \/ AppDrawList) /\ pc' # "trapped") =>
             /\ ~Pending(cl')
             /\ command_lists'[cl'].allocator = command_lists'[cl'].created_by
             /\ command_lists'[cl'].allocator = frame_index
             /\ cl' \in DOMAIN command_lists =>
                   command_lists'[cl'].created_by = command_lists[cl'].created_by]_vars
    /\ [](\A i \in Slots :
             /\ \A id \in Range(frames[i].available_command_lists) : ~Pending(id)
             /\ Range(frames[i].available_command_lists)
                   \cup Range(frames[i].used_command_lists) = CreatedBy(i))
    /\ [](\A id \in DOMAIN command_lists :
             command_lists[id].recording => ~Pending(id))

\* in the third frame a list of the first frame, which the device has
\* executed, is being recorded again on slot 1 while work of the second
\* frame is still pending
NoResetWhilePendingWitness ==
    /\ pc \in {"compute", "draw"}
    /\ reset_log.resets = 3
    /\ frame_index = 1
    /\ command_lists[cl].recording
    /\ command_lists[cl].created_by = 1
    /\ Len(command_lists) = 4
    /\ \E id \in DOMAIN command_lists : Pending(id)

\* the frame a submitted command list was recorded in: the update of its
\* dispatch or of its draw
ItemFrame(item) ==
    LET n == CHOOSE n \in DOMAIN item.cmds :
                 item.cmds[n].op \in {"dispatch", "draw"}
    IN item.cmds[n].tick

\* what a queue item is: the compute list, the draw list, the present or
\* the fence signal of a frame
Work(item) ==
    IF item.kind # "list" THEN item.kind
    ELSE IF \E n \in DOMAIN item.cmds : item.cmds[n].op = "dispatch"
    THEN "compute"
    ELSE "draw"

\* the render thread is in App::render between start_new_frame and end_frame
InFrame ==
    pc \in {"frame", "compute", "updated", "computed", "draw", "ui", "drawn",
            "presented"}

\* the lists acquired so far in the frame being rendered
ListsAcquired ==
    CASE pc = "frame" -> 0
      [] pc \in {"compute", "updated", "computed"} -> 1
      [] OTHER -> 2

\* C28: per-frame ordering in App::render.  Every tick has one
\* start_new_frame and one end_frame, with both new_command_list calls
\* between them; the compute list of the frame is submitted to the queue,
\* then its draw list, then the present, then the fence signal of end_frame,
\* each at the tail of the queue; so no list of a frame is still queued once
\* the fence has reached the frame's watermark, and the k-th draw the device
\* executes is that of frame k and reads the vertex buffer as the dispatch
\* of frame k wrote it.
PerFrameOrdering ==
    /\ [](pc \in {"ready", "render"} =>
             /\ reset_log.resets = Len(signal_log)
             /\ Len(dispatch_log) = Len(signal_log))
    /\ [](InFrame =>
             /\ reset_log.resets = Len(signal_log) + 1
             /\ frames[frame_index].started
             /\ Len(frames[frame_index].used_command_lists) = ListsAcquired)
    /\ [][AppEndFrame =>
             /\ Len(frames[frame_index].used_command_lists) = 2
             /\ signal_log' = Append(signal_log,
                    [slot |-> frame_index, value |-> Len(dispatch_log)])
             /\ queue' = Append(queue, SignalItem(Len(dispatch_log)))]_vars
    /\ [][AppExecuteCompute =>
             /\ Len(queue') = Len(queue) + 1
             /\ SubSeq(queue', 1, Len(queue)) = queue
             /\ Work(queue'[Len(queue')]) = "compute"
             /\ ItemFrame(queue'[Len(queue')]) = Len(signal_log) + 1]_vars
    /\ [][AppDraw =>
             /\ Len(queue') = Len(queue) + 1
             /\ SubSeq(queue', 1, Len(queue)) = queue
             /\ Work(queue'[Len(queue')]) = "draw"
             /\ ItemFrame(queue'[Len(queue')]) = Len(signal_log) + 1]_vars
    /\ [][AppPresent =>
             queue' = Append(queue, PresentItem(back_buffer_index))]_vars
    /\ [](\A k \in DOMAIN queue :
             /\ queue[k].kind = "list" => ItemFrame(queue[k]) > fence
             /\ queue[k].kind = "signal" => queue[k].value > fence
             /\ k < Len(queue) =>
                   <<Work(queue[k]), Work(queue[k + 1])>> \in
                      {<<"compute", "draw">>, <<"draw", "present">>,
                       <<"present", "signal">>, <<"signal", "compute">>})
    /\ [](/\ Len(executed) >= fence
          /\ Len(drawn) >= fence
          /\ \A k \in DOMAIN drawn :
                drawn[k].frame = k /\ drawn[k].vertices = k)

\* the device has executed the draws of two frames and reached the second
\* frame's watermark while the third frame is being rendered with work of it
\* in the queue
PerFrameOrderingWitness ==
    /\ Len(drawn) = 2 /\ drawn[2].vertices = 2 /\ fence = 2
    /\ InFrame /\ queue # <<>>

\* C29: the per-frame path has a single GPU wait.  The render thread comes
\* to block in the fence wait of Frame::wait during a frame only by
\* start_new_frame; new_command_list, World::update, execute_command_lists
\* and end_frame can each be taken whatever the device has completed, end
\* outside a wait, and neither register nor consume the fence event.
SingleGpuWait ==
    /\ [][(pc # "start_wait" /\ pc' = "start_wait") => AppStartNewFrame]_vars
    /\ [][(AppComputeList \/ AppWorldUpdate \/ AppExecuteCompute
              \/ AppDrawList \/ AppEndFrame) =>
             /\ ~DeviceWait'
             /\ UNCHANGED <<fence, fence_event, event_target>>]_vars
    /\ [](/\ pc = "frame" => ENABLED AppComputeList
          /\ pc = "compute" => ENABLED AppWorldUpdate
          /\ pc = "updated" => ENABLED AppExecuteCompute
          /\ pc = "computed" => ENABLED AppDrawList
          /\ pc = "presented" => ENABLED AppEndFrame)

\* the third frame, which began with a fence wait, has come to end_frame
\* while the device has yet to reach the second frame's watermark
SingleGpuWaitWitness ==
    /\ pc = "presented" /\ reset_log.waited /\ reset_log.resets = 3
    /\ Len(signal_log) = 2 /\ fence = 1

\* the back-buffer indices of the render targets the barriers of cmds name
BarrierIndices(cmds) ==
    {i \in Slots : \E n \in DOMAIN cmds :
        cmds[n].op = "barrier" /\ cmds[n].src = RenderTargets[i + 1]}

\* the back-buffer indices of the render-target views cmds binds
ViewIndices(cmds) ==
    {i \in Slots : \E n \in DOMAIN cmds :
        cmds[n].op = "target" /\ cmds[n].src = RtvHandles[i + 1]}

\* C30: the render target and its view are selected by the back-buffer
\* index the swap chain reports at the call.  While a frame's draw list is
\* recorded and until present, the render target of its barriers and the
\* view it binds are those of the swap chain's current index; every draw
\* list in the queue names one index for both, the index the present that
\* follows it presents; and once present has been called the swap chain
\* reports another index than the one the frame drew to, which is the one
\* the next frame's draw list names.
FreshBackBuffer ==
    /\ [](pc \in {"ui", "drawn"} =>
             /\ BarrierIndices(command_lists[cl].cmds) = {back_buffer_index}
             /\ ViewIndices(command_lists[cl].cmds) = {back_buffer_index})
    /\ [](pc = "presented" =>
             /\ BarrierIndices(command_lists[cl].cmds)
                   = ViewIndices(command_lists[cl].cmds)
             /\ back_buffer_index \notin BarrierIndices(command_lists[cl].cmds))
    /\ [](\A k \in DOMAIN queue :
             Work(queue[k]) = "draw" =>
                /\ Cardinality(BarrierIndices(queue[k].cmds)) = 1
                /\ BarrierIndices(queue[k].cmds) = ViewIndices(queue[k].cmds)
                /\ k < Len(queue) =>
                      /\ queue[k + 1].kind = "present"
                      /\ BarrierIndices(queue[k].cmds) = {queue[k + 1].value})
    /\ [][AppLockUI =>
             /\ cl' = cl
             /\ BarrierIndices(command_lists'[cl].cmds) = {back_buffer_index}
             /\ ViewIndices(command_lists'[cl].cmds) = {back_buffer_index}]_vars

\* the second frame, after the first present, has recorded its draw list on
\* the second back buffer while the first frame's draw list, on the first
\* back buffer, is still in the queue
FreshBackBufferWitness ==
    /\ pc = "ui" /\ Len(signal_log) = 1 /\ back_buffer_index = 1
    /\ BarrierIndices(command_lists[cl].cmds) = {1}
    /\ \E k \in DOMAIN queue :
          Work(queue[k]) = "draw" /\ ViewIndices(queue[k].cmds) = {0}

\* the positions in cmds of the copies of the rule table
RuleCopies(cmds) ==
    {n \in DOMAIN cmds : cmds[n].op = "copy" /\ cmds[n].what = "rules"}

\* C31 as stated: the rule table is copied once per regeneration.  An update
\* whose rule table is the one the previous update was given records no
\* copy of the rule table.
RulesCopiedOncePerRegeneration ==
    [][(/\ AppWorldUpdate
        /\ dispatch_log # <<>>
        /\ dispatch_log[Len(dispatch_log)].rules = world_rules) =>
          RuleCopies(command_lists'[cl].cmds) = {}]_vars

\* C31 as the code has it: every update, whether or not the rules were
\* regenerated since the previous one, writes the rule table it is given
\* into the staging buffer and records exactly one copy of it from there to
\* the constants buffer, ahead of its dispatch.
RulesCopiedEveryUpdate ==
    [][AppWorldUpdate =>
         LET cmds == command_lists'[cl].cmds IN
         /\ Cardinality(RuleCopies(cmds)) = 1
         /\ \A n \in RuleCopies(cmds) :
               /\ cmds[n].src = dispatch_log'[Len(dispatch_log')].staging
               /\ cmds[n].dst = "constant_buffer"
               /\ cmds[Len(cmds)].op = "dispatch" /\ n < Len(cmds)
         /\ staging_mem'[dispatch_log'[Len(dispatch_log')].staging].rules
               = world_rules]_vars

\* an update given the same rule table as the update before it has recorded
\* a copy of the rule table, after an earlier regeneration
RulesCopiedEveryUpdateWitness ==
    /\ pc = "updated"
    /\ Len(dispatch_log) = 3
    /\ dispatch_log[2].rules # dispatch_log[1].rules
    /\ dispatch_log[3].rules = dispatch_log[2].rules
    /\ RuleCopies(command_lists[cl].cmds) # {}

\* the copies among cmds, in recording order
Copies(cmds) == SelectSeq(cmds, LAMBDA c : c.op = "copy")

\* C32: staging layout.  An update writes the shader constants at offset 0
\* of the staging buffer, the rule table right after them and, exactly when
\* a reset is pending, the particle array right after the rule table; the
\* regions written do not overlap and end within the staging buffer's size,
\* particle_buffer_size + constant_buffer_size; and the copies the update
\* records are one per region written, in the same order, each out of the
\* staging buffer written, its source range the region just written.
StagingLayout ==
    [][WorldUpdate =>
         LET w == staging_write'.regions
             old == command_lists[cl].cmds
             new == command_lists'[cl].cmds
             copies == Copies(SubSeq(new, Len(old) + 1, Len(new)))
         IN
         /\ Len(w) = IF reset_particles THEN 3 ELSE 2
         /\ w[1].what = "shader_constants" /\ w[1].offset = 0
         /\ w[1].size = size_of(ShaderGlobalConstants)
         /\ w[2].what = "rules" /\ w[2].offset = w[1].offset + w[1].size
         /\ w[2].size = size_of(Rule) * num_rules
         /\ Len(w) = 3 =>
               /\ w[3].what = "particles"
               /\ w[3].offset = w[2].offset + w[2].size
               /\ w[3].size = particle_buffer_size(num_particles)
         /\ \A j, k \in DOMAIN w :
               j < k => w[j].offset + w[j].size <= w[k].offset
         /\ \A k \in DOMAIN w :
               /\ w[k].size > 0
               /\ w[k].offset + w[k].size <= staging_buffer_size(num_particles)
         /\ Len(copies) = Len(w)
         /\ \A k \in DOMAIN w :
               /\ copies[k].src = staging_write'.buffer
               /\ copies[k].what = w[k].what
               /\ copies[k].src_offset = w[k].offset
               /\ copies[k].size = w[k].size]_vars

\* a World of NUM_PARTICLES particles has been updated twice, the second
\* update with a reset pending: its particle region ends exactly at the end
\* of the staging buffer
StagingLayoutWitness ==
    /\ num_particles = NUM_PARTICLES
    /\ Len(dispatch_log) = 2 /\ dispatch_log[2].reset
    /\ Len(staging_write.regions) = 3
    /\ staging_write.regions[3].offset + staging_write.regions[3].size
          = staging_buffer_size(num_particles)
    /\ staging_write.regions[3].offset = 784

\* C33: no dispatch reads an uninitialized particle buffer.  The first
\* update finds a reset pending; the buffer every update binds as the
\* dispatch's input is the target of a reset copy the same update recorded
\* ahead of the dispatch or the output buffer of the previous update's
\* dispatch; and whenever the device executes a dispatch, a copy or an
\* earlier dispatch has written the buffer it reads.
NoUninitializedRead ==
    /\ [](dispatch_log # <<>> => dispatch_log[1].reset)
    /\ [](\A k \in DOMAIN dispatch_log :
             \/ dispatch_log[k].reset
             \/ k > 1 /\ dispatch_log[k].srv = dispatch_log[k - 1].uav)
    /\ [][WorldUpdate =>
             LET cmds == command_lists'[cl].cmds
                 d == cmds[Len(cmds)]
             IN /\ d.op = "dispatch" /\ d.src = old_particles
                /\ reset_particles =>
                      /\ cmds[Len(cmds) - 1].op = "copy"
                      /\ cmds[Len(cmds) - 1].what = "particles"
                      /\ cmds[Len(cmds) - 1].dst = d.src]_vars
    /\ [](\A k \in DOMAIN executed : executed[k].initialized)

\* the device has executed the dispatches of a first update, which reset the
\* particles, and of a second, which did not and read the first one's output
NoUninitializedReadWitness ==
    /\ Len(executed) >= 2
    /\ dispatch_log[1].reset /\ ~dispatch_log[2].reset
    /\ dispatch_log[2].srv = dispatch_log[1].uav
    /\ executed[2].initialized

\* this step sends a message: tx.send appends it to the channel
Sends ==
    /\ Len(channel') = Len(channel) + 1
    /\ SubSeq(channel', 1, Len(channel)) = channel

\* C34: Quit is sent exactly once and is the last message sent.  Handling
\* CloseRequested with the thread handle present takes the handle, sends
\* Quit and goes to join; the handle never comes back; with the handle gone
\* nothing is sent; Quit is only ever the newest message in the channel;
\* and every send happens while the render thread, which owns the
\* receiver, has not ended.
QuitOnceAndLast ==
    /\ [][(EventHandle /\ event = "close" /\ main_thread) =>
             /\ channel' = Append(channel, QuitMessage)
             /\ ~main_thread'
             /\ epc' = "joining"]_vars
    /\ [][~main_thread => (~main_thread' /\ ~Sends)]_vars
    /\ [][Sends => (main_thread /\ ~RenderDone)]_vars
    /\ [][channel' = Append(channel, QuitMessage) => ~main_thread']_vars
    /\ [](\A k \in DOMAIN channel :
             channel[k] = QuitMessage => (k = Len(channel) /\ ~main_thread))
    /\ [](RenderDone => ~main_thread)

\* after CloseRequested, Quit and the join, the render thread has ended and
\* the event thread has handled a further input event, sending nothing
QuitOnceAndLastWitness ==
    /\ ~main_thread /\ pc = "dropped"
    /\ events = 2 /\ event = "input" /\ epc = "idle"
    /\ channel = <<>>

\* C35: shutdown liveness.  The render thread acts on Quit only at the top
\* of a tick; and once the event thread has sent Quit, the render thread
\* comes to the end of Drop for App with every started frame ended, and the
\* event thread is out of thread.join(): neither thread waits forever.
ShutdownLive ==
    /\ [][ThreadsQuit => (pc = "ready" /\ ~main_thread)]_vars
    /\ [](epc = "joining" => ~main_thread)
    /\ (~main_thread) ~> (pc = "dropped" /\ epc # "joining")
    /\ [](pc = "dropped" => \A i \in Slots : fence >= frames[i].fence_value)

\* Quit was sent; the render thread, whose third and last frame began with
\* a fence wait, has ended with the device at that frame's watermark, and
\* the join has returned
ShutdownLiveWitness ==
    /\ ~main_thread /\ pc = "dropped" /\ epc = "idle"
    /\ Len(signal_log) = 3 /\ fence = 3
    /\ reset_log.waited

\* the command list at position k of the queue is followed in the queue by
\* the signal of a fence value that some slot records as its watermark
Covered(k) ==
    \E j \in DOMAIN queue :
        /\ j > k
        /\ queue[j].kind = "signal"
        /\ \E i \in Slots : frames[i].fence_value = queue[j].value

\* the render thread is in Drop for App or has left it
InTeardown == pc \in {"drop_wait", "dropped"}

\* C36: Quit is acted on between frames.  The render thread takes the Quit
\* branch only at the top of a tick; when it does, and all through the
\* teardown that follows, no slot is started and every command list still
\* in the queue is followed there by the signal of a slot's watermark.
QuitBetweenFrames ==
    /\ [][ThreadsQuit =>
             /\ pc = "ready"
             /\ \A i \in Slots : ~frames[i].started
             /\ \A k \in DOMAIN queue : queue[k].kind = "list" => Covered(k)
             /\ InTeardown']_vars
    /\ [](InTeardown =>
             /\ \A i \in Slots : ~frames[i].started
             /\ \A k \in DOMAIN queue : queue[k].kind = "list" => Covered(k))
    /\ [][InTeardown => UNCHANGED <<frames, command_lists>>]_vars

\* teardown has begun after two frames and waits for the device, which
\* still has command lists of both frames in its queue
QuitBetweenFramesWitness ==
    /\ pc = "drop_wait" /\ ~main_thread
    /\ Len(signal_log) = 2
    /\ Cardinality({k \in DOMAIN queue : queue[k].kind = "list"}) = 4

\* the render thread waits for something the event thread holds
RenderWaitsForEvent ==
    \/ pc = "draw" /\ ui_mutex = "event"
    \/ pc = "ui" /\ window_mutex = "event"

\* the event thread waits for something the render thread holds, or for the
\* render thread to end
EventWaitsForRender ==
    \/ epc = "locking" /\ ui_mutex = "render"
    \/ epc = "handling" /\ window_mutex = "render"
    \/ epc = "joining" /\ ~RenderDone

\* C37: deadlock freedom of the two threads.  Each thread takes the window
\* mutex only while it holds the UI mutex, so the window mutex is never
\* held by a thread that does not hold the UI mutex; the event thread holds
\* neither mutex when it sends Quit and while it joins; the two threads
\* never wait on each other; and whenever one of them is blocked on the
\* other, the other can take a step or is waiting for the device.
DeadlockFree ==
    /\ [][(window_mutex' # window_mutex /\ window_mutex' # "free") =>
             (ui_mutex = window_mutex' /\ ui_mutex' = ui_mutex)]_vars
    /\ [](window_mutex # "free" => ui_mutex = window_mutex)
    /\ [][channel' = Append(channel, QuitMessage) =>
             (ui_mutex' # "event" /\ window_mutex' # "event")]_vars
    /\ [](epc = "joining" => (ui_mutex # "event" /\ window_mutex # "event"))
    /\ [](~(RenderWaitsForEvent /\ EventWaitsForRender))
    /\ [](RenderWaitsForEvent => ENABLED EventStep)
    /\ [](EventWaitsForRender => (ENABLED RenderStep \/ DeviceWait))

\* the event thread, handling CloseRequested, holds the UI mutex and the
\* window mutex while the render thread waits for the UI mutex in the UI
\* section of its second frame
DeadlockFreeWitness ==
    /\ pc = "draw" /\ ui_mutex = "event" /\ window_mutex = "event"
    /\ event = "close" /\ main_thread
    /\ Len(signal_log) = 1
----------------------------------------------------------------------------
\* the events of the Event messages of a sequence of messages, in order
RECURSIVE EventsOf(_)
EventsOf(messages) ==
    IF messages = <<>> THEN <<>>
    ELSE IF Head(messages).kind = "Event"
         THEN <<Head(messages).event>> \o EventsOf(Tail(messages))
         ELSE EventsOf(Tail(messages))

\* the messages of a sequence that come before its first Quit message
RECURSIVE BeforeQuit(_)
BeforeQuit(messages) ==
    IF messages = <<>> \/ Head(messages).kind = "Quit" THEN <<>>
    ELSE <<Head(messages)>> \o BeforeQuit(Tail(messages))

\* the render thread is at the top of 'mainloop and leaves it through
\* App::update
UpdateStep == pc = "ready" /\ pc' = "render"

\* C38: forwarded events are handled in the order they were sent and each at
\* most once: the events handled, followed by those still in the channel, are
\* always in the order the event loop delivered them, without repetition, and
\* a message is sent at the back of the channel and taken out of it only by
\* the render thread at the top of 'mainloop; a tick that reaches App::update
\* has by then handled every event that was in the channel, in order, and
\* left the channel empty; a tick that finds a Quit handles the events in
\* front of it only, and once the loop is left nothing is handled any more
EventsInOrder ==
    /\ [](LET all == handled \o EventsOf(channel)
          IN \A i, j \in DOMAIN all : i < j => all[i] < all[j])
    /\ [][channel' # channel =>
            \/ Sends
            \/ pc = "ready" /\ pc' # "ready"]_vars
    /\ [][UpdateStep =>
            /\ handled' = handled \o EventsOf(channel)
            /\ channel' = <<>>]_vars
    /\ [][pc = "ready" /\ pc' \notin {"ready", "render"} =>
            handled' = handled \o EventsOf(BeforeQuit(channel))]_vars
    /\ [][pc # "ready" => handled' = handled]_vars

\* two forwarded events were waiting in the channel when a tick began, and
\* that tick has handled both and gone on to render
EventsInOrderWitness ==
    /\ handled = <<1, 2>>
    /\ pc = "render"
    /\ channel = <<>>
    /\ Len(dispatch_log) = 0
====
